---- MODULE Spec2Model ----
(***************************************************************************)
(* Buy vs Rent classroom NPV simulator (src/app.py): one run of the        *)
(* Streamlit script, from the widget values to the Monte Carlo block.      *)
(*                                                                         *)
(* Numbers.  The script computes in binary floating point; the model       *)
(* computes in integers.  Money is in whole currency units.  Percentages   *)
(* typed into widgets are integers; the house and rent growth handed to    *)
(* compute_npv are in units of 1/GS percent, GS = 79, because the growth   *)
(* grid np.linspace(-5, 8, 80) has the step 13/79.  Every product x*a/b is *)
(* MulDiv(x, a, b), the exact quotient rounded down.                       *)
(***************************************************************************)
EXTENDS Integers, Sequences, FiniteSets, TLC

VARIABLES
    inputs,        \* the widget values of this run (lines 20-52)
    exit_year,     \* the global exit_year (lines 36-41, reassigned 241-244)
    pc,            \* position of the script
    error,         \* the exception that ended the run, or None
    loan,          \* downpayment, loan_amt, n, emi (lines 59-65)
    year1,         \* year1_interest, year1_principal (lines 69-78)
    call,          \* locals of the latest compute_npv call (lines 88-148)
    rows,          \* scenario table (lines 155-163)
    sens,          \* b, rn of the sensitivity slider (line 176)
    diffs,         \* growth sweep deltas (lines 189-193)
    break_even,    \* lines 206-210
    be_marked,     \* whether the growth chart carries the marker (212-220)
    y,             \* tenure sweep loop variable (line 239)
    tenure_diffs,  \* lines 237-243
    tenure_be,     \* lines 259-263
    tenure_marked, \* whether the tenure chart carries the marker (265-279)
    tax,           \* b1, b0 and their difference (lines 301-306), or None
    results,       \* Monte Carlo deltas (lines 316-325)
    prob           \* win probability (line 327), or None

vars == <<inputs, exit_year, pc, error, loan, year1, call, rows, sens, diffs,
          break_even, be_marked, y, tenure_diffs, tenure_be, tenure_marked,
          tax, results, prob>>

NoError == "None"

\* Python's None is the empty sequence, and a value v that is set is <<v>>.
None == <<>>

Some(v) == <<v>>

\* Truth value of "if v:" for a number or None: None and 0 are false.
Truthy(o) == o # None /\ o[1] # 0

-----------------------------------------------------------------------------
(* Program constants *)

tax_rate == 30
interest_cap == 200000
principal_cap == 150000
StampDutyPct == 3
FlatFee == 8000
LifetimeYears == 60
GrowthLo == -5
GrowthHi == 8
GrowthPoints == 80
MaxYears == 30
sims == 500

(* Model resolution and bounds *)

ONE == 100000
NumSeeds == 2

GS == GrowthPoints - 1

-----------------------------------------------------------------------------
(* Arithmetic *)

Abs(x) == IF x < 0 THEN -x ELSE x

Sgn(x) == IF x > 0 THEN 1 ELSE IF x < 0 THEN -1 ELSE 0

Min(a, b) == IF a <= b THEN a ELSE b

\* x*num/den for den > 0 rounded down, exactly and without forming x*num:
\* '*' and '/' of the script.
MulDiv(x, num, den) == (x \div den) * num + ((x % den) * num) \div den

-----------------------------------------------------------------------------
(* Loop bodies *)

\* One factor of (1+r)**n (line 65) for a rate of pct percent a year, in
\* units of 1/ONE and rounded up, so that the payment computed from the
\* power never exceeds the exact one.
PowStep(x, pct) == x + (x * pct + 1199) \div 1200

\* interest = balance*r (lines 74, 103), rounded up: with the payment rounded
\* down, the modelled balance of a loan being repaid never falls below the
\* exact one.
Interest(balance) == -MulDiv(-balance, inputs.loan_rate, 1200)

\* Lines 74-78: one month of the year-1 breakdown.
Year1Step(t) ==
    [bal             |-> t.bal - (loan[1].emi - Interest(t.bal)),
     year1_interest  |-> t.year1_interest + Interest(t.bal),
     year1_principal |-> t.year1_principal + (loan[1].emi - Interest(t.bal))]

\* Lines 103-105: the balance after one more month.
BalanceStep(balance, m) == balance - (loan[1].emi - Interest(balance))

\* One factor of (1+hg/100)**exit_year (line 123); hg in units of 1/GS percent.
SaleStep(x, hg) == x + MulDiv(x, hg, 100 * GS)

\* Lines 138-139: the investment balance and the rent after one more month.
RentStep(s, m, rg) ==
    [invest_balance |-> s.invest_balance
                        + MulDiv(s.invest_balance, inputs.disc, 1200),
     rent           |-> s.rent + MulDiv(s.rent, rg, 1200 * GS)]

\* sum(cf/((1+rate)**i)) of lines 145-146, rate = disc/100/12, summed from
\* the last term: cf[0] + (cf[1] + (cf[2] + ...)/(1+rate))/(1+rate).  One
\* step takes in the k-th term from the end.
NpvStep(acc, k, cfs) ==
    cfs[Len(cfs) + 1 - k] + MulDiv(acc, 1200, 1200 + inputs.disc)

\* Pass m of the loop named loop, entered with loop variable s; a is what the
\* body reads besides.
Step(loop, a, s, m) ==
    CASE loop = "pow"      -> PowStep(s, a)
      [] loop = "year1"    -> Year1Step(s)
      [] loop = "amortize" -> BalanceStep(s, m)
      [] loop = "sale"     -> SaleStep(s, a)
      [] loop = "rent"     -> RentStep(s, m, a)
      [] loop = "npv"      -> NpvStep(s, m, a)

\* The loop variable after each of the passes lo..hi of
\* "for m in range(lo, hi+1)".  The left half is evaluated before the right
\* half starts from its last value.
RECURSIVE Trace(_, _, _, _, _)
Trace(loop, a, s, lo, hi) ==
    IF lo > hi THEN <<>>
    ELSE IF lo = hi THEN <<Step(loop, a, s, lo)>>
    ELSE LET mid  == (lo + hi) \div 2
             left == Trace(loop, a, s, lo, mid)
         IN  left \o Trace(loop, a, left[Len(left)], mid + 1, hi)

\* The loop variable after the last pass.
Iterate(loop, a, s, lo, hi) ==
    IF lo > hi THEN s
    ELSE LET t == Trace(loop, a, s, lo, hi) IN t[Len(t)]

\* (1 + pct/100/12)**k in units of 1/ONE.
PowMonthly(pct, k) == Iterate("pow", pct, ONE, 1, k)

-----------------------------------------------------------------------------
(* Loan: lines 59-65 *)

Downpayment(I) == MulDiv(I.price, I.down_pct, 100)

LoanAmt(I) == I.price - Downpayment(I)

\* (1+r)**n - 1, the divisor of line 65, in units of 1/ONE.
EmiDivisor(I) == PowMonthly(I.loan_rate, I.tenure * 12) - ONE

\* loan_amt*r*(1+r)**n / ((1+r)**n - 1), with (1+r)**n = divisor + 1.
Emi(I) ==
    LET lr == MulDiv(LoanAmt(I), I.loan_rate, 1200)
    IN  lr + Sgn(lr) * MulDiv(Abs(lr), ONE, EmiDivisor(I))

-----------------------------------------------------------------------------
(* compute_npv: lines 88-148 *)

\* Lines 107-118.
TaxSavingMonthly(interest, principal, tax_on) ==
    LET interest_ded  == Min(interest * 12, interest_cap)
        principal_ded == Min(principal * 12, principal_cap)
    IN  IF tax_on
        THEN ((interest_ded + principal_ded) * tax_rate) \div (100 * 12)
        ELSE 0

\* tax_saving_monthly of the month that starts with this balance.
TaxSaving(balance, tax_on) ==
    TaxSavingMonthly(Interest(balance), loan[1].emi - Interest(balance), tax_on)

\* Line 120, for the month that starts with this balance.
BuyOutflow(balance, tax_on) ==
    -(loan[1].emi + inputs.monthly_costs - TaxSaving(balance, tax_on))

\* A variant that adds the amount to the first entry instead.
AddToLastMut(cf, amount) == [cf EXCEPT ![1] = @ + amount]

\* cf[-1] += amount (lines 125, 143).
AddToLast(cf, amount) == [cf EXCEPT ![Len(cf)] = @ + amount]

\* price*(1+hg/100)**exit_year (line 123).
SalePrice(hg, ey) == Iterate("sale", hg, inputs.price, 1, ey)

\* npv(monthly_disc, cfs) (lines 145-148).
Npv(cfs) == Iterate("npv", cfs, 0, 1, Len(cfs))

\* The locals of one call compute_npv(hg, rg, tax_on) made while the global
\* exit_year is ey; sale_net exists only when the block of line 122 ran.
compute_npv(hg, rg, tax_on, ey) ==
    LET months  == ey * 12
        initial == loan[1].downpayment
                   + MulDiv(inputs.price, inputs.buy_commission, 100)
                   + MulDiv(inputs.price, StampDutyPct, 100) + FlatFee
        bals    == Trace("amortize", None, loan[1].loan_amt, 1, months)
        before(m) == IF m = 1 THEN loan[1].loan_amt ELSE bals[m - 1]
        balance == IF months <= 0 THEN loan[1].loan_amt ELSE bals[months]
        savings == [m \in 1..months |-> TaxSaving(before(m), tax_on)]
        flows   == [m \in 1..months |-> BuyOutflow(before(m), tax_on)]
        sale_net == MulDiv(SalePrice(hg, ey), 100 - inputs.sell_commission, 100)
                    - balance
        cf_buy  == IF inputs.lifetime
                   THEN <<-initial>> \o flows
                   ELSE AddToLast(<<-initial>> \o flows, sale_net)
        rs      == Trace("rent", rg,
                         [invest_balance |-> initial, rent |-> inputs.rent0],
                         1, months)
        invest_balance == IF months <= 0 THEN initial
                          ELSE rs[months].invest_balance
        cf_rent == AddToLast(<<-initial>> \o [m \in 1..months |-> -rs[m].rent],
                             invest_balance)
    IN  [hg |-> hg, rg |-> rg, tax_on |-> tax_on, months |-> months,
         initial |-> initial, bals |-> bals, balance |-> balance,
         tax_savings |-> savings, outflows |-> flows,
         sale_net |-> IF inputs.lifetime THEN None ELSE Some(sale_net),
         rents |-> [m \in 1..months |-> rs[m].rent],
         invest_balance |-> invest_balance,
         cf_buy |-> cf_buy, cf_rent |-> cf_rent,
         npv_buy |-> Npv(cf_buy), npv_rent |-> Npv(cf_rent)]

-----------------------------------------------------------------------------
(* Inputs *)

\* The widgets' default values (lines 20-52); the rng seed names the stream
\* of Monte Carlo draws.
Defaults ==
    [price |-> 1500000, down_pct |-> 20, loan_rate |-> 3, tenure |-> 30,
     rent0 |-> 4000, rent_growth |-> 2, house_growth |-> 3, disc |-> 5,
     lifetime |-> FALSE, sell_after |-> 10, buy_commission |-> 1,
     sell_commission |-> 1, monthly_costs |-> 450, use_tax |-> TRUE,
     button |-> FALSE, seed |-> 1]

LoanRates == {0, 3, 12}
Tenures == {1, 30}
Rents == {1000, 4000, 20000}
SellAfters == {1, 4, 10}

\* Loan, rent and horizon varied together.
CoreInputs ==
    {[Defaults EXCEPT !.loan_rate = lr, !.tenure = t, !.rent0 = r0,
                      !.sell_after = sa, !.use_tax = ut] :
        lr \in LoanRates, t \in Tenures, r0 \in Rents, sa \in SellAfters,
        ut \in BOOLEAN}

\* One widget moved to an extreme value.
EdgeInputs ==
    {[Defaults EXCEPT !.down_pct = 150],
     [Defaults EXCEPT !.house_growth = -200],
     [Defaults EXCEPT !.sell_commission = 150],
     [Defaults EXCEPT !.lifetime = TRUE],
     [Defaults EXCEPT !.lifetime = TRUE, !.tenure = 1]}

\* Runs in which "Run Monte Carlo" was clicked.
MonteCarloInputs ==
    {[Defaults EXCEPT !.button = TRUE, !.seed = sd, !.rent0 = r0,
                      !.sell_after = 4] :
        sd \in 1..NumSeeds, r0 \in {1000, 4000}}

InputSets == CoreInputs \cup EdgeInputs \cup MonteCarloInputs

Init ==
    /\ inputs \in InputSets
    /\ exit_year = IF inputs.lifetime THEN LifetimeYears ELSE inputs.sell_after
    /\ pc = "emi"
    /\ error = NoError
    /\ loan = None
    /\ year1 = None
    /\ call = None
    /\ rows = <<>>
    /\ sens = None
    /\ diffs = <<>>
    /\ break_even = None
    /\ be_marked = FALSE
    /\ y = 1
    /\ tenure_diffs = <<>>
    /\ tenure_be = None
    /\ tenure_marked = FALSE
    /\ tax = None
    /\ results = <<>>
    /\ prob = None

\* Lines 59-66.  Dividing by a zero (1+r)**n - 1 raises ZeroDivisionError.
ComputeEmi ==
    /\ pc = "emi"
    /\ IF EmiDivisor(inputs) = 0
       THEN /\ pc' = "error"
            /\ error' = "ZeroDivisionError"
            /\ loan' = loan
       ELSE /\ pc' = "year1"
            /\ error' = error
            /\ loan' = Some([downpayment |-> Downpayment(inputs),
                             loan_amt |-> LoanAmt(inputs),
                             n |-> inputs.tenure * 12,
                             emi |-> Emi(inputs)])
    /\ UNCHANGED <<inputs, exit_year, year1, call, rows, sens, diffs,
                   break_even, be_marked, y, tenure_diffs, tenure_be,
                   tenure_marked, tax, results, prob>>

\* Lines 80-83: the two totals shown.
Year1Totals(t) ==
    [year1_interest |-> t.year1_interest, year1_principal |-> t.year1_principal]

\* Lines 69-83.
Year1Breakdown ==
    /\ pc = "year1"
    /\ year1' = Some(Year1Totals(Iterate("year1", None,
                                         [bal |-> loan[1].loan_amt,
                                          year1_interest |-> 0,
                                          year1_principal |-> 0], 1, 12)))
    /\ pc' = "scenarios"
    /\ UNCHANGED <<inputs, exit_year, error, loan, call, rows, sens, diffs,
                   break_even, be_marked, y, tenure_diffs, tenure_be,
                   tenure_marked, tax, results, prob>>

\* A variant with Boom and Crash exchanged.
ScenarioGrowthMut(name) ==
    CASE name = "Base"  -> inputs.house_growth
      [] name = "Boom"  -> inputs.house_growth - 1
      [] name = "Crash" -> inputs.house_growth + 1

\* Lines 156-160: the house growth of Base, Boom, Crash.
ScenarioGrowth(name) ==
    CASE name = "Base"  -> inputs.house_growth
      [] name = "Boom"  -> inputs.house_growth + 1
      [] name = "Crash" -> inputs.house_growth - 1

ScenarioRow(name) ==
    LET c == compute_npv(GS * ScenarioGrowth(name), GS * inputs.rent_growth,
                         inputs.use_tax, exit_year)
    IN  <<name, c.npv_buy, c.npv_rent, c.npv_buy - c.npv_rent>>

Scenarios ==
    /\ pc = "scenarios"
    /\ rows' = <<ScenarioRow("Base"), ScenarioRow("Boom"), ScenarioRow("Crash")>>
    /\ call' = Some(compute_npv(GS * ScenarioGrowth("Crash"),
                                GS * inputs.rent_growth, inputs.use_tax,
                                exit_year))
    /\ pc' = "sensitivity"
    /\ UNCHANGED <<inputs, exit_year, error, loan, year1, sens, diffs,
                   break_even, be_marked, y, tenure_diffs, tenure_be,
                   tenure_marked, tax, results, prob>>

\* Lines 175-181.  st.slider raises when its default value, float(house_growth),
\* lies outside [-5.0, 8.0]; otherwise the slider stands at that default.
Sensitivity ==
    /\ pc = "sensitivity"
    /\ IF inputs.house_growth < GrowthLo \/ inputs.house_growth > GrowthHi
       THEN /\ pc' = "error"
            /\ error' = "StreamlitAPIException"
            /\ UNCHANGED <<sens, call>>
       ELSE /\ call' = Some(compute_npv(GS * inputs.house_growth,
                                        GS * inputs.rent_growth,
                                        inputs.use_tax, exit_year))
            /\ sens' = Some([b |-> call'[1].npv_buy, rn |-> call'[1].npv_rent])
            /\ pc' = "growth"
            /\ error' = error
    /\ UNCHANGED <<inputs, exit_year, loan, year1, rows, diffs, break_even,
                   be_marked, y, tenure_diffs, tenure_be, tenure_marked, tax,
                   results, prob>>

\* np.linspace(-5, 8, 80) in units of 1/GS percent (line 188).
growths == [i \in 1..GrowthPoints |->
               GS * GrowthLo + (GrowthHi - GrowthLo) * (i - 1)]

\* np.arange(1, 31) (line 236).
years == [i \in 1..MaxYears |-> i]

\* The sign of a*b for two floats.
ProductSign(a, b) == Sgn(a) * Sgn(b)

\* A variant that also accepts a zero product.
SignChangeMut(d, i) == ProductSign(d[i], d[i + 1]) <= 0

\* The test of lines 208 and 261 on the pair d[i], d[i+1].
SignChange(d, i) == ProductSign(d[i], d[i + 1]) < 0

\* The element of xs the scan picks at index i (lines 209, 262).
Picked(xs, i) == xs[i]

\* The scans of lines 206-210 and 259-263 from index i on: the x of the
\* first pair of d that changes sign, or None.
RECURSIVE Scan(_, _, _)
Scan(xs, d, i) ==
    IF i > Len(d) - 1 THEN None
    ELSE IF SignChange(d, i) THEN Some(Picked(xs, i))
    ELSE Scan(xs, d, i + 1)

\* b - rn of one call (lines 193, 243, 325).
Delta(c) == c.npv_buy - c.npv_rent

\* Lines 188-193: diffs after each pass of the loop.
GrowthSweep ==
    /\ pc = "growth"
    /\ diffs' = [i \in 1..GrowthPoints |->
                     Delta(compute_npv(growths[i], GS * inputs.rent_growth,
                                       inputs.use_tax, exit_year))]
    /\ call' = Some(compute_npv(growths[GrowthPoints], GS * inputs.rent_growth,
                                inputs.use_tax, exit_year))
    /\ pc' = "growth_be"
    /\ UNCHANGED <<inputs, exit_year, error, loan, year1, rows, sens,
                   break_even, be_marked, y, tenure_diffs, tenure_be,
                   tenure_marked, tax, results, prob>>

\* Lines 206-220: the scan, and the marker under "if break_even:".
GrowthBreakEven ==
    /\ pc = "growth_be"
    /\ break_even' = Scan(growths, diffs, 1)
    /\ be_marked' = Truthy(break_even')
    /\ pc' = "tenure"
    /\ UNCHANGED <<inputs, exit_year, error, loan, year1, call, rows, sens,
                   diffs, y, tenure_diffs, tenure_be, tenure_marked, tax,
                   results, prob>>

\* A variant that leaves the override in place.
RestoreExitMut(old_exit, yr) == yr

\* Line 244: exit_year = old_exit.
RestoreExit(old_exit, yr) == old_exit

\* Lines 239-244: one pass of the tenure sweep.
TenureStep ==
    /\ pc = "tenure"
    /\ y <= MaxYears
    /\ call' = Some(compute_npv(GS * inputs.house_growth,
                                GS * inputs.rent_growth, inputs.use_tax,
                                years[y]))
    /\ tenure_diffs' = Append(tenure_diffs, Delta(call'[1]))
    /\ exit_year' = RestoreExit(exit_year, years[y])
    /\ y' = y + 1
    /\ UNCHANGED <<inputs, pc, error, loan, year1, rows, sens, diffs,
                   break_even, be_marked, tenure_be, tenure_marked, tax,
                   results, prob>>

\* Lines 259-279, after the last pass.
TenureBreakEven ==
    /\ pc = "tenure"
    /\ y > MaxYears
    /\ tenure_be' = Scan(years, tenure_diffs, 1)
    /\ tenure_marked' = (tenure_be' # None)
    /\ pc' = "tax"
    /\ UNCHANGED <<inputs, exit_year, error, loan, year1, call, rows, sens,
                   diffs, break_even, be_marked, y, tenure_diffs, tax,
                   results, prob>>

\* Lines 303-306: b1, b0 and the value shown.
TaxRow(b1, b0) == [b1 |-> b1, b0 |-> b0, value |-> b1 - b0]

\* Lines 291-306: the tax comparison sits inside "if tenure_be:".
TaxComparison ==
    /\ pc = "tax"
    /\ IF Truthy(tenure_be)
       THEN /\ call' = Some(compute_npv(GS * inputs.house_growth,
                                        GS * inputs.rent_growth, FALSE,
                                        exit_year))
            /\ tax' = Some(TaxRow(compute_npv(GS * inputs.house_growth,
                                              GS * inputs.rent_growth, TRUE,
                                              exit_year).npv_buy,
                                  call'[1].npv_buy))
       ELSE UNCHANGED <<tax, call>>
    /\ pc' = "mc"
    /\ UNCHANGED <<inputs, exit_year, error, loan, year1, rows, sens, diffs,
                   break_even, be_marked, y, tenure_diffs, tenure_be,
                   tenure_marked, results, prob>>

\* Lines 313-320: without a click the block is skipped.
MonteCarloStart ==
    /\ pc = "mc"
    /\ pc' = IF inputs.button THEN "mc_loop" ELSE "done"
    /\ UNCHANGED <<inputs, exit_year, error, loan, year1, call, rows, sens,
                   diffs, break_even, be_marked, y, tenure_diffs, tenure_be,
                   tenure_marked, tax, results, prob>>

\* The k-th draw of np.random.multivariate_normal(means, cov) (line 323), in
\* units of 1/GS percent: the generator's stream is an input of the run,
\* named by inputs.seed.
Draw(k) ==
    [hg |-> GS * inputs.house_growth + GS * (((k * inputs.seed) % 5) - 2),
     rg |-> GS * inputs.rent_growth + GS * (((k + inputs.seed) % 3) - 1)]

\* Line 322: for _ in range(sims).
Trials == sims

\* Lines 323-325: one trial.
MonteCarloTrial ==
    /\ pc = "mc_loop"
    /\ Len(results) < Trials
    /\ call' = Some(compute_npv(Draw(Len(results) + 1).hg,
                                Draw(Len(results) + 1).rg, inputs.use_tax,
                                exit_year))
    /\ results' = Append(results, Delta(call'[1]))
    /\ UNCHANGED <<inputs, exit_year, pc, error, loan, year1, rows, sens,
                   diffs, break_even, be_marked, y, tenure_diffs, tenure_be,
                   tenure_marked, tax, prob>>

\* A variant that counts a zero delta as a win.
IsWinMut(d) == d >= 0

\* np.array(results) > 0, elementwise (line 327).
IsWin(d) == d > 0

\* np.mean(np.array(results) > 0) as the fraction wins/trials (line 327).
WinProbability(rs) ==
    [wins |-> Cardinality({k \in 1..Len(rs) : IsWin(rs[k])}), trials |-> Len(rs)]

\* Lines 327-329, after the last trial.
MonteCarloProb ==
    /\ pc = "mc_loop"
    /\ ~(Len(results) < Trials)
    /\ prob' = Some(WinProbability(results))
    /\ pc' = "done"
    /\ UNCHANGED <<inputs, exit_year, error, loan, year1, call, rows, sens,
                   diffs, break_even, be_marked, y, tenure_diffs, tenure_be,
                   tenure_marked, tax, results>>

Next ==
    \/ ComputeEmi
    \/ Year1Breakdown
    \/ Scenarios
    \/ Sensitivity
    \/ GrowthSweep
    \/ GrowthBreakEven
    \/ TenureStep
    \/ TenureBreakEven
    \/ TaxComparison
    \/ MonteCarloStart
    \/ MonteCarloTrial
    \/ MonteCarloProb

Spec == Init /\ [][Next]_vars

-----------------------------------------------------------------------------
(* The two scans on their own (lines 206-220 and 259-279), applied to sampled
   deltas of any signs: three runs of equal values cut at a and b. *)

Cuts == {2, 3, 17, MaxYears}

Signs == {-1, 0, 1}

Pattern(n, a, b, s) ==
    [i \in 1..n |-> IF i < a THEN s[1] ELSE IF i < b THEN s[2] ELSE s[3]]

ScanInit ==
    /\ inputs = Defaults
    /\ exit_year = inputs.sell_after
    /\ pc = "growth_be"
    /\ error = NoError
    /\ loan = None
    /\ year1 = None
    /\ call = None
    /\ rows = <<>>
    /\ sens = None
    /\ \E a \in Cuts, b \in Cuts, s \in [1..3 -> Signs] :
          /\ a <= b
          /\ diffs = Pattern(GrowthPoints, 2 * a, 2 * b + 1, s)
          /\ tenure_diffs = Pattern(MaxYears, a, b, s)
    /\ break_even = None
    /\ be_marked = FALSE
    /\ y = MaxYears + 1
    /\ tenure_be = None
    /\ tenure_marked = FALSE
    /\ tax = None
    /\ results = <<>>
    /\ prob = None

ScanNext ==
    \/ GrowthBreakEven
    \/ TenureBreakEven

ScanSpec == ScanInit /\ [][ScanNext]_vars

-----------------------------------------------------------------------------
(* Properties *)

\* The parameter sets the specification calls valid.
ValidParameters(I) ==
    /\ I.price > 0
    /\ I.down_pct >= 0 /\ I.down_pct <= 100
    /\ I.tenure > 0
    /\ I.sell_after > 0

\* C1: with a loan rate of 0 and a tenure above 0 the run never ends in an
\* error, and once the payment is computed it is loan_amt / n.
ZeroRateProceeds ==
    inputs.loan_rate = 0 /\ inputs.tenure > 0 =>
        /\ error = NoError
        /\ pc # "emi" => /\ loan # None
                         /\ loan[1].emi = loan[1].loan_amt \div loan[1].n

\* C2: a parameter set with price <= 0, tenure <= 0, horizon <= 0 or a down
\* payment above 100 percent never gets a cash flow, an NPV, a scenario row
\* or a sweep value computed from it.
InvalidParametersFailFast ==
    (\/ inputs.price <= 0
     \/ inputs.tenure <= 0
     \/ inputs.sell_after <= 0
     \/ inputs.down_pct > 100) =>
        /\ call = None
        /\ rows = <<>>
        /\ sens = None
        /\ diffs = <<>>
        /\ tenure_diffs = <<>>
        /\ tax = None
        /\ results = <<>>

Opposite(a, b) == (a < 0 /\ b > 0) \/ (a > 0 /\ b < 0)

\* The indices i at which d[i] * d[i+1] < 0.
Changes(d) == {i \in 1..(Len(d) - 1) : Opposite(d[i], d[i + 1])}

First(S) == CHOOSE i \in S : \A j \in S : i <= j

Reported(xs, d, be, marked) ==
    IF Changes(d) = {}
    THEN be = None /\ ~marked
    ELSE be = Some(xs[First(Changes(d))]) /\ marked

\* C3: after each scan the break-even is the sample at the smallest index
\* whose delta and the next have a strictly negative product, it is marked
\* exactly when such an index exists, and it is absent when none does.
BreakEvenIsFirstStrictSignChange ==
    /\ pc \in {"tenure", "tax", "mc", "mc_loop", "done"} =>
           Reported(growths, diffs, break_even, be_marked)
    /\ pc \in {"tax", "mc", "mc_loop", "done"} =>
           Reported(years, tenure_diffs, tenure_be, tenure_marked)

\* Both scans ran on deltas that start at zero and change sign once, later.
BreakEvenAfterZeroDeltas ==
    /\ pc = "tax"
    /\ diffs[1] = 0 /\ diffs[2] = 0 /\ tenure_diffs[1] = 0
    /\ Cardinality(Changes(diffs)) = 1
    /\ be_marked /\ break_even # Some(growths[1])
    /\ tenure_marked /\ tenure_be # Some(years[1])

\* C4: for valid parameters, npvBuy with tax off is at most npvBuy with tax
\* on, and the monthly tax saving of every month of a call is at least 0.
TaxOnNeverWorse ==
    ValidParameters(inputs) =>
        /\ tax # None => tax[1].b0 <= tax[1].b1
        /\ call # None =>
               \A m \in 1..call[1].months : call[1].tax_savings[m] >= 0

\* npvBuy of the scenario rows: Base, Boom, Crash.
ScenarioOrder == rows[2][2] >= rows[1][2] /\ rows[1][2] >= rows[3][2]

DeltaOfRows == \A i \in 1..3 : rows[i][4] = rows[i][2] - rows[i][3]

\* C5 as stated: with a discount rate above 0, Boom >= Base >= Crash in
\* npvBuy for every parameter set, and each delta is npvBuy - npvRent.
ScenarioOrderAlways ==
    rows # <<>> /\ inputs.disc > 0 => ScenarioOrder /\ DeltaOfRows

\* C5 amended: each row's delta is npvBuy - npvRent; and with a discount rate
\* above 0, a price of at least 0, a selling commission of at most 100
\* percent and a Crash growth of at least -100 percent,
\* Boom >= Base >= Crash in npvBuy.
ScenarioOrderWhenSaleNonNegative ==
    rows # <<>> =>
        /\ DeltaOfRows
        /\ (/\ inputs.disc > 0
            /\ inputs.price >= 0
            /\ inputs.sell_commission <= 100
            /\ inputs.house_growth - 1 >= -100) => ScenarioOrder

\* A sale-mode table whose three npvBuy differ in the stated order.
ScenarioOrderStrict ==
    /\ rows # <<>>
    /\ ~inputs.lifetime
    /\ inputs.disc > 0 /\ inputs.sell_commission <= 100
    /\ rows[2][2] > rows[1][2] /\ rows[1][2] > rows[3][2]

\* The shape of the two series of call c.
SeriesShape(c) ==
    /\ Len(c.cf_buy) = c.months + 1
    /\ Len(c.cf_rent) = c.months + 1
    /\ c.cf_buy[1] = -c.initial
    /\ c.cf_rent[1] = -c.initial
    /\ inputs.lifetime <=> c.sale_net = None
    /\ \A m \in 1..c.months :
          /\ c.cf_buy[m + 1] =
                 c.outflows[m]
                 + (IF m = c.months /\ ~inputs.lifetime THEN c.sale_net[1] ELSE 0)
          /\ c.cf_rent[m + 1] =
                 -c.rents[m] + (IF m = c.months THEN c.invest_balance ELSE 0)

\* C6: both series of a call have months + 1 entries, start with -initial,
\* continue with the recurring flows, and carry the terminal adjustment on
\* the last entry only: the sale proceeds for buy unless lifetime, the
\* investment balance for rent.
CashFlowSeriesShape == call # None => SeriesShape(call[1])

\* A sale-mode call over several months with both terminal adjustments.
SaleOnLastMonth ==
    /\ call # None
    /\ call[1].months > 12
    /\ call[1].sale_net # None /\ call[1].sale_net[1] > 0
    /\ call[1].invest_balance > 0
    /\ call[1].cf_buy[call[1].months + 1] > 0
    /\ call[1].cf_buy[call[1].months] < 0

\* The last call was made with the arguments of the Base scenario's call
\* and over the run's holding horizon.
SameCallAsBase ==
    /\ call # None /\ rows # <<>>
    /\ call[1].hg = GS * inputs.house_growth
    /\ call[1].rg = GS * inputs.rent_growth
    /\ call[1].tax_on = inputs.use_tax
    /\ call[1].months = 12 * exit_year

\* C7: no step changes the holding horizon, the tenure sweep's included; a
\* call with the Base scenario's arguments over the same horizon returns the
\* Base row's values wherever it is made; and the tax comparison, made after
\* the sweep, repeats the Base row's npvBuy.
HorizonRestoredAndCallsRepeat ==
    /\ [][exit_year' = exit_year]_vars
    /\ [](SameCallAsBase
            => call[1].npv_buy = rows[1][2] /\ call[1].npv_rent = rows[1][3])
    /\ [](tax # None => (IF inputs.use_tax THEN tax[1].b1 ELSE tax[1].b0)
                            = rows[1][2])

\* The sweep is over, the horizon is not its last override, and the tax
\* comparison has repeated the Base scenario's call.
CallRepeatedAfterSweep ==
    /\ pc = "mc"
    /\ Len(tenure_diffs) = MaxYears
    /\ exit_year = inputs.sell_after /\ exit_year # years[MaxYears]
    /\ tax # None
    /\ call[1].npv_buy = rows[1][2]

\* C8: every completed run has produced the tax-benefit delta.
TaxDeltaAlwaysProduced ==
    pc = "done" => tax # None /\ tax[1].value = tax[1].b1 - tax[1].b0

\* C9: the loop makes one call per draw, in draw order, and records its
\* delta; it ends after exactly sims calls; the probability is the number of
\* deltas above 0 over sims and lies in [0, 1]; a single trial gives 1 when
\* its delta is above 0 and 0 otherwise, a zero delta included.
MonteCarloCountsWins ==
    /\ Len(results) <= sims
    /\ pc = "mc_loop" /\ results # <<>> =>
           /\ call[1].hg = Draw(Len(results)).hg
           /\ call[1].rg = Draw(Len(results)).rg
           /\ call[1].tax_on = inputs.use_tax
           /\ results[Len(results)] = call[1].npv_buy - call[1].npv_rent
    /\ pc = "done" =>
           IF inputs.button
           THEN /\ Len(results) = sims
                /\ prob # None
                /\ prob[1].trials = sims
                /\ prob[1].wins =
                       Cardinality({k \in 1..sims : results[k] > 0})
                /\ 0 <= prob[1].wins /\ prob[1].wins <= prob[1].trials
           ELSE results = <<>> /\ prob = None
    /\ \A d \in {-1, 0, 1} :
           WinProbability(<<d>>) =
               [wins |-> IF d > 0 THEN 1 ELSE 0, trials |-> 1]

\* A finished Monte Carlo run with wins and losses.
MonteCarloMixed ==
    /\ pc = "done"
    /\ prob # None
    /\ prob[1].wins > 0 /\ prob[1].wins < prob[1].trials

\* C10: for valid parameters the balance after every month of a call lies
\* between 0 and the loan amount.
BalanceWithinLoan ==
    ValidParameters(inputs) /\ call # None =>
        \A m \in 1..call[1].months :
            /\ 0 <= call[1].bals[m]
            /\ call[1].bals[m] <= loan[1].loan_amt

====
